---- MODULE Spec2Model ----
(***************************************************************************)
(* A model of clubappv01.py: the four tables created by init_db, the       *)
(* custom-field helpers, the club-name setting, the person handlers, the   *)
(* filter tab and the Excel import.                                         *)
(*                                                                          *)
(* Text is a sequence of one-character strings, so that lower(), strip(),   *)
(* str() and substring search are computed and not assumed.  Greek letters  *)
(* are written with one Latin letter each (the five category names and the  *)
(* "all" sentinel keep their letter structure).                             *)
(***************************************************************************)
EXTENDS Integers, Sequences, FiniteSets, Bags, TLC

VARIABLES
    people,             \* rows of table people
    custom_fields,      \* rows of table custom_fields
    member_attributes,  \* rows of table member_attributes: a bag of (member_id, field_id, field_value)
    settings,           \* rows of table settings: a bag of (club_name)
    seqs,               \* the SERIAL sequences behind people.id and custom_fields.id
    pc,                 \* where the single operator's current handler stands
    imp,                \* the running import (tab8), when pc = "import"
    last,               \* the outcome of the latest handler
    f,                  \* st.session_state.filters (tab6)
    df_all,             \* the snapshot SELECT * FROM people of the current run
    filtered_df,        \* the filtered snapshot shown by tab6
    calls               \* per operator, the save_member_attribute call in flight

vars == <<people, custom_fields, member_attributes, settings, seqs,
          pc, imp, last, f, df_all, filtered_df, calls>>

dbvars == <<people, custom_fields, member_attributes, settings, seqs>>

filtervars == <<f, df_all, filtered_df>>

-----------------------------------------------------------------------------
(* Bounds of the model. *)

\* rows ever inserted into people, under Spec
MaxPeople == 1

\* rows ever inserted into people, under SpecImport
MaxImported == 2

\* rows ever inserted into custom_fields
MaxFields == 2

\* rows of an imported sheet
MaxImportRows == 2

\* filter widgets that differ from their default at the same time
MaxActive == 2

\* operators (browser sessions) whose calls run at the same time
MaxOperators == 2

-----------------------------------------------------------------------------
(* Text. *)

\* SQL NULL / Python None in a text column
None == <<"<None>">>

\* SQL NULL in a column of month names or flags
NullEnum == "NULL"

\* SQL NULL in an INTEGER column
NullInt == -1

LowerChar(c) ==
    CASE c = "A" -> "a"
      [] c = "N" -> "n"
      [] c = "P" -> "p"
      [] c = "O" -> "o"
      [] OTHER -> c

\* str.lower()
Lower(s) == [i \in 1..Len(s) |-> LowerChar(s[i])]

\* str(x), Series.astype(str): None becomes the text "None"
PyStr(x) == IF x = None THEN <<"N", "o", "n", "e">> ELSE x

RECURSIVE LStrip(_)
LStrip(s) == IF s # <<>> /\ Head(s) = " " THEN LStrip(Tail(s)) ELSE s

RECURSIVE RStrip(_)
RStrip(s) == IF s # <<>> /\ s[Len(s)] = " " THEN RStrip(SubSeq(s, 1, Len(s) - 1)) ELSE s

\* str.strip()
Strip(s) == RStrip(LStrip(s))

\* pat in s; also re.search(pat, s) for a pattern without metacharacters
Contains(s, pat) ==
    \E i \in 0..(Len(s) - Len(pat)) : SubSeq(s, i + 1, i + Len(pat)) = pat

RECURSIVE Join(_, _)
\* sep.join(list)
Join(list, sep) ==
    IF list = <<>> THEN <<>>
    ELSE IF Len(list) = 1 THEN list[1]
    ELSE list[1] \o sep \o Join(Tail(list), sep)

\* the elements of a sequence
Range(s) == {s[i] : i \in 1..Len(s)}

-----------------------------------------------------------------------------
(* The five categories a custom field can be shown in, and the sentinel     *)
(* stored for "every category".                                             *)

GENIKA == <<"G", "E", "N", "I", "K", "A", " ", "S", "T", "O", "I", "X", "E", "I", "A">>

MELOS == <<"M", "E", "L", "O", "S">>

ATHLITIS == <<"A", "Q", "L", "H", "T", "H", "S">>

MATHITIS == <<"M", "A", "Q", "H", "T", "H", "S">>

ENDIAFEROMENOS == <<"E", "N", "D", "I", "A", "F", "E", "R", "O", "M", "E", "N", "O", "S">>

\* in the order tab1 renders its sections
DomainOrder == <<GENIKA, MELOS, ATHLITIS, MATHITIS, ENDIAFEROMENOS>>

DomainTags == Range(DomainOrder)

\* the sentinel: capital omicron with tonos, then two lower-case letters
Ola == <<"O'", "l", "a">>

\* the first choice of a role filter: no constraint
AllChoice == "Ola"

\* the flags of the four roles
NAI == "NAI"

OXI == "OXI"

-----------------------------------------------------------------------------------------------------------------------------------------------------
(* The database: the tables of init_db, threaded through the statements of  *)
(* a handler as one record.  The id columns of member_attributes and        *)
(* settings are read by no statement but for existence, so that these two   *)
(* tables are bags of their other columns; created_at is read nowhere.      *)

DB ==
    [people |-> people, custom_fields |-> custom_fields,
     member_attributes |-> member_attributes, settings |-> settings, seqs |-> seqs]

SetDB(d) ==
    /\ people' = d.people
    /\ custom_fields' = d.custom_fields
    /\ member_attributes' = d.member_attributes
    /\ settings' = d.settings
    /\ seqs' = d.seqs

\* the state after init_db on an empty store
init_db ==
    [people |-> {}, custom_fields |-> {}, member_attributes |-> EmptyBag,
     settings |-> EmptyBag, seqs |-> [people |-> 0, custom_fields |-> 0]]

Ids(rows) == {r.id : r \in rows}

\* the bag of the rows of b that satisfy Keep
BagFilter(b, Keep(_)) ==
    LET S == {r \in BagToSet(b) : Keep(r)} IN [r \in S |-> b[r]]

\* the bag of the images of the rows of b
BagMap(b, Image(_)) ==
    LET T == {Image(r) : r \in BagToSet(b)}
        RECURSIVE Sum(_)
        Sum(R) == IF R = {} THEN 0
                  ELSE LET r == CHOOSE x \in R : TRUE IN b[r] + Sum(R \ {r})
    IN [t \in T |-> Sum({r \in BagToSet(b) : Image(r) = t})]

\* the rows of member_attributes of one (member_id, field_id)
RowsOf(attrs, member_id, field_id) ==
    BagFilter(attrs, LAMBDA r : r.member_id = member_id /\ r.field_id = field_id)

\* the two FOREIGN KEY constraints as they would be on a store that does not
\* enforce them
ForeignKeysUnchecked(db, member_id, field_id) == TRUE

\* member_id REFERENCES people(id), field_id REFERENCES custom_fields(id)
ForeignKeysHold(db, member_id, field_id) ==
    member_id \in Ids(db.people) /\ field_id \in Ids(db.custom_fields)

\* INSERT INTO member_attributes (member_id, field_id, field_value)
InsertAttribute(db, member_id, field_id, field_value) ==
    [db EXCEPT !.member_attributes =
        @ (+) SetToBag({[member_id |-> member_id, field_id |-> field_id,
                         field_value |-> field_value]})]

\* UPDATE member_attributes SET field_value WHERE member_id AND field_id
UpdateAttribute(db, member_id, field_id, field_value) ==
    [db EXCEPT !.member_attributes =
        BagMap(@, LAMBDA r : IF r.member_id = member_id /\ r.field_id = field_id
                             THEN [r EXCEPT !.field_value = field_value] ELSE r)]

\* save_member_attribute as it would be without the existence SELECT: always INSERT
save_always_insert(db, member_id, field_id, field_value) ==
    IF ForeignKeysHold(db, member_id, field_id)
    THEN [db |-> InsertAttribute(db, member_id, field_id, field_value),
          done |-> "INSERT", err |-> ""]
    ELSE [db |-> db, done |-> "INSERT", err |-> "ForeignKeyViolation"]

\* save_member_attribute: the existence SELECT, then INSERT or UPDATE.
\* The result is the new database and the error the call raised, if any.
save_member_attribute(db, member_id, field_id, field_value) ==
    LET existing == RowsOf(db.member_attributes, member_id, field_id)
    IN IF existing = EmptyBag
       THEN IF ForeignKeysHold(db, member_id, field_id)
            THEN [db |-> InsertAttribute(db, member_id, field_id, field_value),
                  done |-> "INSERT", err |-> ""]
            ELSE [db |-> db, done |-> "INSERT", err |-> "ForeignKeyViolation"]
       ELSE [db |-> UpdateAttribute(db, member_id, field_id, field_value),
             done |-> "UPDATE", err |-> ""]

\* get_member_attributes: member_attributes JOIN custom_fields, for one member:
\* the bag of the result's rows
get_member_attributes(db, member_id) ==
    LET cf(r) == CHOOSE c \in db.custom_fields : c.id = r.field_id
    IN BagMap(BagFilter(db.member_attributes,
                        LAMBDA r : r.member_id = member_id
                                   /\ r.field_id \in Ids(db.custom_fields)),
              LAMBDA r : [id |-> cf(r).id, field_name |-> cf(r).field_name,
                          display_name |-> cf(r).display_name,
                          field_value |-> r.field_value])

\* domains_str of add_custom_field
DomainsStr(applicable_domains) ==
    IF applicable_domains # <<>> THEN Join(applicable_domains, <<",">>) ELSE Ola

\* add_custom_field as it would be on a table without UNIQUE (field_name)
add_custom_field_unchecked(db, field_name, display_name, applicable_domains) ==
    LET id == db.seqs.custom_fields + 1
    IN [db |-> [db EXCEPT
                  !.custom_fields = @ \cup {[id |-> id, field_name |-> field_name,
                                             display_name |-> display_name,
                                             applicable_domains |-> DomainsStr(applicable_domains)]},
                  !.seqs.custom_fields = id],
        err |-> ""]

\* add_custom_field: one INSERT, refused when field_name is already there (UNIQUE)
add_custom_field(db, field_name, display_name, applicable_domains) ==
    IF \E cf \in db.custom_fields : cf.field_name = field_name
    THEN [db |-> db, err |-> "UniqueViolation"]
    ELSE LET id == db.seqs.custom_fields + 1
         IN [db |-> [db EXCEPT
                       !.custom_fields = @ \cup {[id |-> id, field_name |-> field_name,
                                                  display_name |-> display_name,
                                                  applicable_domains |-> DomainsStr(applicable_domains)]},
                       !.seqs.custom_fields = id],
             err |-> ""]

\* DELETE FROM member_attributes WHERE field_id
DeleteAttributesOfField(db, field_id) ==
    [db EXCEPT !.member_attributes = BagFilter(@, LAMBDA r : r.field_id # field_id)]

\* DELETE FROM custom_fields WHERE id (ON DELETE CASCADE into member_attributes)
DeleteFieldRow(db, field_id) ==
    [db EXCEPT !.custom_fields = {cf \in @ : cf.id # field_id},
               !.member_attributes = BagFilter(@, LAMBDA r : r.field_id # field_id)]

\* delete_custom_field as it would be if only the definition were deleted, on a
\* store that does not cascade
delete_definition_only(db, field_id) ==
    [db EXCEPT !.custom_fields = {cf \in @ : cf.id # field_id}]

\* delete_custom_field: the two DELETEs
delete_custom_field(db, field_id) ==
    DeleteFieldRow(DeleteAttributesOfField(db, field_id), field_id)

\* the mask as it would be with a match at the start of the text only
DomainAppliesAtStart(applicable_domains, domain) ==
    applicable_domains = Ola
        \/ (Len(applicable_domains) >= Len(domain)
              /\ SubSeq(applicable_domains, 1, Len(domain)) = domain)

\* the mask of get_custom_fields_by_domain
DomainApplies(applicable_domains, domain) ==
    applicable_domains = Ola \/ Contains(applicable_domains, domain)

\* get_custom_fields_by_domain
get_custom_fields_by_domain(db, domain) ==
    {cf \in db.custom_fields : DomainApplies(cf.applicable_domains, domain)}

\* get_club_name: the club_name of a first row (LIMIT 1), None without a row:
\* the set of the values the call can return
get_club_name(db) ==
    IF db.settings = EmptyBag THEN {None} ELSE {s.club_name : s \in BagToSet(db.settings)}

\* set_club_name's first statement as it would be if it deleted nothing
DeleteNoSettings(db) == db

\* set_club_name, first statement: DELETE FROM settings
DeleteSettings(db) == [db EXCEPT !.settings = EmptyBag]

\* set_club_name, second statement: INSERT INTO settings (club_name)
InsertSettings(db, name) ==
    [db EXCEPT !.settings = @ (+) SetToBag({[club_name |-> name]})]

-----------------------------------------------------------------------------
(* People. *)

\* months[0]
FirstMonth == "Ianouarios"

\* years_2000_2050[0]
FirstYear2000 == 2000

\* years_2010_2050[0]
FirstYear2010 == 2010

\* years_1980_2050[0]
FirstYear1980 == 1980

\* the base fields the import can map a column to
ImportFields ==
    {"first_name", "last_name", "phone", "email", "is_member", "is_athlete", "eom_number"}

\* data.get(k) of the import: the mapped cell, None for an unmapped field
DataGet(data, k) ==
    IF k \in DOMAIN data THEN data[k]
    ELSE IF k \in {"is_member", "is_athlete"} THEN NullEnum ELSE None

\* str(data.get(k, "")) of the import's duplicate test
DataGetStr(data, k) == IF k \in DOMAIN data THEN PyStr(data[k]) ELSE <<>>

\* the row the import's INSERT INTO people creates: seven columns, the others NULL
ImportedPerson(id, data) ==
    [id |-> id,
     last_name |-> DataGet(data, "last_name"), first_name |-> DataGet(data, "first_name"),
     phone |-> DataGet(data, "phone"), email |-> DataGet(data, "email"),
     is_member |-> DataGet(data, "is_member"), member_month |-> NullEnum,
     member_year |-> NullInt, subscription_year |-> NullInt,
     is_athlete |-> DataGet(data, "is_athlete"), eom_number |-> DataGet(data, "eom_number"),
     athlete_from_year |-> NullInt,
     is_student |-> NullEnum, student_period_month |-> NullEnum,
     student_period_year |-> NullInt, student_university |-> NullEnum,
     is_interested |-> NullEnum, interested_from_month |-> NullEnum,
     interested_from_year |-> NullInt]

\* value=row[col] or "" of a text input of display_editable_all
OrEmpty(x) == IF x = None THEN <<>> ELSE x

\* the widgets of display_editable_all as first rendered for a row
EditDefaults(row) ==
    [last_name |-> OrEmpty(row.last_name), first_name |-> OrEmpty(row.first_name),
     phone |-> OrEmpty(row.phone), email |-> OrEmpty(row.email),
     is_member |-> IF row.is_member = OXI THEN OXI ELSE NAI,
     member_month |-> IF row.member_month = NullEnum THEN FirstMonth ELSE row.member_month,
     member_year |-> IF row.member_year = NullInt THEN FirstYear2000 ELSE row.member_year,
     subscription_year |-> IF row.subscription_year = NullInt THEN FirstYear2010
                           ELSE row.subscription_year,
     is_athlete |-> IF row.is_athlete = OXI THEN OXI ELSE NAI,
     eom_number |-> OrEmpty(row.eom_number),
     athlete_from_year |-> IF row.athlete_from_year = NullInt THEN FirstYear1980
                           ELSE row.athlete_from_year]

\* the row after UPDATE people SET (eleven columns) WHERE id
UpdatedPerson(row, form) ==
    [row EXCEPT
        !.last_name = form.last_name, !.first_name = form.first_name,
        !.phone = form.phone, !.email = form.email,
        !.is_member = form.is_member, !.member_month = form.member_month,
        !.member_year = form.member_year, !.subscription_year = form.subscription_year,
        !.is_athlete = form.is_athlete, !.eom_number = form.eom_number,
        !.athlete_from_year = form.athlete_from_year]

\* st.session_state.get("<prefix>_<field_name>_<rid>"): no widget carries such a key
\* (the custom fields of the model are not named like a base column)
SessionStateGet(field_name, rid) == None

RECURSIVE SaveEach(_, _, _)
\* the loop over custom_attrs of the edit form's save handler
SaveEach(db, rid, attrs) ==
    IF attrs = {} THEN db
    ELSE LET attr == CHOOSE x \in attrs : \A y \in attrs : x.id <= y.id
         IN SaveEach(save_member_attribute(db, rid, attr.id,
                                           SessionStateGet(attr.field_name, rid)).db,
                     rid, {x \in attrs : x.id # attr.id})

\* the edit form's save handler: UPDATE people, then one save per stored attribute
update_person(db, rid, form) ==
    LET d1 == [db EXCEPT !.people =
                  {IF p.id = rid THEN UpdatedPerson(p, form) ELSE p : p \in @}]
    IN SaveEach(d1, rid, BagToSet(get_member_attributes(d1, rid)))

\* DELETE FROM people WHERE id (ON DELETE CASCADE into member_attributes)
DeletePersonRow(db, rid) ==
    [db EXCEPT !.people = {p \in @ : p.id # rid},
               !.member_attributes = BagFilter(@, LAMBDA r : r.member_id # rid)]

\* DELETE FROM member_attributes WHERE member_id
DeleteAttributesOfMember(db, rid) ==
    [db EXCEPT !.member_attributes = BagFilter(@, LAMBDA r : r.member_id # rid)]

\* the edit form's delete handler: the two DELETEs
delete_person(db, rid) == DeleteAttributesOfMember(DeletePersonRow(db, rid), rid)

-----------------------------------------------------------------------------
(* The import of tab8. *)

\* existing = SELECT first_name, last_name, email FROM people
ExistingKeys(db) ==
    {[first_name |-> p.first_name, last_name |-> p.last_name, email |-> p.email] :
        p \in db.people}

\* the duplicate test: three comparisons of lower-cased str() forms, any row
IsDuplicate(existing, data) ==
    \E e \in existing :
        /\ Lower(PyStr(e.first_name)) = Lower(DataGetStr(data, "first_name"))
        /\ Lower(PyStr(e.last_name)) = Lower(DataGetStr(data, "last_name"))
        /\ Lower(PyStr(e.email)) = Lower(DataGetStr(data, "email"))

\* INSERT INTO people (seven columns)
InsertImported(db, data) ==
    LET id == db.seqs.people + 1
    IN [db EXCEPT !.people = @ \cup {ImportedPerson(id, data)}, !.seqs.people = id]

\* col = %s in SQL: never true of a NULL on either side
SqlEq(col, param) == col # None /\ param # None /\ col = param

\* SELECT id FROM people WHERE email=%s AND first_name=%s AND last_name=%s
IdsByIdentity(db, email, first_name, last_name) ==
    {p.id : p \in {q \in db.people :
                      /\ SqlEq(q.email, email)
                      /\ SqlEq(q.first_name, first_name)
                      /\ SqlEq(q.last_name, last_name)}}

\* whether a custom cell is written: str(cell) is not empty and is not "nan"
CellIsWritten(cell) ==
    PyStr(cell) # <<>> /\ Lower(PyStr(cell)) # <<"n", "a", "n">>

RECURSIVE ImportCustomFieldsOneTry(_, _, _, _, _, _)
\* the loop as it would be with one try around the whole loop: the first write
\* that raises leaves a warning and ends the loop
ImportCustomFieldsOneTry(db, member_id, mapping, cells, failing, i) ==
    IF i > Len(mapping) THEN [db |-> db, warnings |-> 0]
    ELSE LET field_id == mapping[i]
         IN IF ~CellIsWritten(cells[field_id])
            THEN ImportCustomFieldsOneTry(db, member_id, mapping, cells, failing, i + 1)
            ELSE IF field_id \in failing THEN [db |-> db, warnings |-> 1]
            ELSE ImportCustomFieldsOneTry(
                     save_member_attribute(db, member_id, field_id, PyStr(cells[field_id])).db,
                     member_id, mapping, cells, failing, i + 1)

RECURSIVE ImportCustomFields(_, _, _, _, _, _)
\* the loop over custom_fields_mapping for one inserted row: each cell is written
\* under its own try; a write that raises (failing) leaves a warning and the loop
\* goes on.  The result is the database and the number of warnings.
ImportCustomFields(db, member_id, mapping, cells, failing, i) ==
    IF i > Len(mapping) THEN [db |-> db, warnings |-> 0]
    ELSE LET field_id == mapping[i]
             raised == field_id \in failing
             res == IF CellIsWritten(cells[field_id]) /\ ~raised
                    THEN save_member_attribute(db, member_id, field_id, PyStr(cells[field_id]))
                    ELSE [db |-> db, done |-> "",
                          err |-> IF CellIsWritten(cells[field_id]) THEN "raised" ELSE ""]
             rest == ImportCustomFields(res.db, member_id, mapping, cells, failing, i + 1)
         IN [db |-> rest.db,
             warnings |-> rest.warnings + (IF res.err # "" THEN 1 ELSE 0)]

\* a set of integers in ascending order
RECURSIVE Ascending(_)
Ascending(S) ==
    IF S = {} THEN <<>>
    ELSE LET m == CHOOSE x \in S : \A y \in S : x <= y
         IN <<m>> \o Ascending(S \ {m})

-----------------------------------------------------------------------------
(* Tab1: the creation of a person. *)

\* years_2018_2050[0]
FirstYear2018 == 2018

\* the %s of tab1's INSERT INTO people
Tab1Placeholders == 19

\* the columns, and the parameters, of tab1's INSERT INTO people
Tab1Parameters == 18

\* the text inputs tab1 renders for custom fields: one for each section and each
\* field get_custom_fields_by_domain returns for the section
Tab1Widgets(db) ==
    UNION {{<<d, cf.field_name>> : cf \in get_custom_fields_by_domain(db, d)} : d \in DomainTags}

\* all_custom_inputs: the dicts of the five sections merged in the order of the
\* sections, so that a field shown in several sections keeps the text of the last
all_custom_inputs(inputs) ==
    [name \in {w[2] : w \in DOMAIN inputs} |->
        LET shown == {i \in 1..Len(DomainOrder) : <<DomainOrder[i], name>> \in DOMAIN inputs}
            latest == CHOOSE i \in shown : \A j \in shown : j <= i
        IN inputs[<<DomainOrder[latest], name>>]]

\* the row tab1's INSERT INTO people creates: the two names as typed, the other
\* widgets as first rendered
NewPerson(id, last_name, first_name) ==
    [id |-> id, last_name |-> last_name, first_name |-> first_name,
     phone |-> <<>>, email |-> <<>>,
     is_member |-> OXI, member_month |-> FirstMonth,
     member_year |-> FirstYear2000, subscription_year |-> FirstYear2010,
     is_athlete |-> OXI, eom_number |-> <<>>, athlete_from_year |-> FirstYear1980,
     is_student |-> OXI, student_period_month |-> FirstMonth,
     student_period_year |-> FirstYear2010, student_university |-> OXI,
     is_interested |-> OXI, interested_from_month |-> FirstMonth,
     interested_from_year |-> FirstYear2018]

RECURSIVE Tab1SaveInputs(_, _, _, _)
\* the loop over all_custom_inputs: a text that is not empty is saved under the
\* id of the field of that name
Tab1SaveInputs(db, member_id, merged, names) ==
    IF names = {} THEN db
    ELSE LET FieldId(n) == (CHOOSE cf \in db.custom_fields : cf.field_name = n).id
             name == CHOOSE n \in names : \A m \in names : FieldId(n) <= FieldId(m)
         IN Tab1SaveInputs(
                IF merged[name] # <<>>
                THEN save_member_attribute(db, member_id, FieldId(name), merged[name]).db
                ELSE db,
                member_id, merged, names \ {name})

\* tab1's save from its INSERT INTO people on, for a statement that execute
\* accepts: the INSERT, the re-query by (email, first_name, last_name) and its
\* first row, the saves.  The set of the outcomes: the re-query has no ORDER BY,
\* and the first save either is accepted or raises (its ids are numpy integers)
\* and ends the handler.
Tab1Insert(db, last_name, first_name, inputs) ==
    LET id == db.seqs.people + 1
        d1 == [db EXCEPT !.people = @ \cup {NewPerson(id, last_name, first_name)},
                         !.seqs.people = id]
        found == IdsByIdentity(d1, <<>>, first_name, last_name)
        merged == all_custom_inputs(inputs)
    IN IF found = {} THEN {[db |-> d1, err |-> "IndexError"]}
       ELSE {[db |-> Tab1SaveInputs(d1, member_id, merged, DOMAIN merged), err |-> ""] :
                member_id \in found}
            \cup (IF \E n \in DOMAIN merged : merged[n] # <<>>
                  THEN {[db |-> d1, err |-> "ProgrammingError"]} ELSE {})

\* tab1's save as it would be without the test of the two names, its INSERT
\* given as many placeholders as parameters
tab1_save_unvalidated(db, last_name, first_name, inputs) ==
    Tab1Insert(db, last_name, first_name, inputs)

\* tab1's save: the warning for a missing name; else the INSERT INTO people,
\* whose statement has more placeholders than parameters, so that execute raises
\* before anything is sent and the handler ends there
tab1_save(db, last_name, first_name, inputs) ==
    IF last_name = <<>> \/ first_name = <<>> THEN {[db |-> db, err |-> "warning"]}
    ELSE IF Tab1Placeholders # Tab1Parameters THEN {[db |-> db, err |-> "IndexError"]}
    ELSE Tab1Insert(db, last_name, first_name, inputs)

-----------------------------------------------------------------------------------------------------------------------------------------------------
(* The filters of tab6. *)

\* the four single-choice filters, in the order of the loop that applies them
RoleCols == <<"is_member", "is_athlete", "is_student", "is_interested">>

\* multi_filters: key and column are the same name in each pair
MultiCols ==
    <<"member_month", "member_year", "subscription_year", "athlete_from_year",
      "student_period_month", "student_period_year", "student_university">>

\* the NULL of a multi-choice column: four of them are INTEGER, three TEXT
NullOf(k) ==
    IF k \in {"member_year", "subscription_year", "athlete_from_year", "student_period_year"}
    THEN NullInt ELSE NullEnum

\* the three text searches, in the order of their if statements
TextCols == <<"name_search", "eom_number_search", "email_search">>

\* every clause in the order the code applies it
ClauseOrder == RoleCols \o MultiCols \o TextCols

\* Active as it would be without the if on a multi choice's list
ActiveMultiUnguarded(fl, k) ==
    IF k \in Range(RoleCols) THEN fl[k] # AllChoice
    ELSE IF k \in Range(MultiCols) THEN TRUE
    ELSE fl[k] # <<>>

\* the condition under which the code applies a clause: f[col] != "Ola" for a
\* single choice, a non-empty list for a multi choice, a non-empty text
\* (before strip) for a search
Active(fl, k) ==
    IF k \in Range(RoleCols) THEN fl[k] # AllChoice
    ELSE IF k \in Range(MultiCols) THEN fl[k] # {}
    ELSE fl[k] # <<>>

\* the mask of the name search for one row: str.contains gives NaN for a NULL
\* name; NaN | x stays NaN and selects nothing, x | NaN is x | False
NameMask(row, ns) ==
    IF row.first_name = None THEN FALSE
    ELSE \/ Contains(Lower(row.first_name), ns)
         \/ (row.last_name # None /\ Contains(Lower(row.last_name), ns))

\* the mask of one clause for one row
Mask(fl, k, row) ==
    IF k \in Range(RoleCols) THEN row[k] = fl[k]
    ELSE IF k \in Range(MultiCols)
         THEN row[k] # NullOf(k) /\ row[k] \in fl[k]
    ELSE IF k = "name_search" THEN NameMask(row, Lower(Strip(fl[k])))
    ELSE IF k = "eom_number_search"
         THEN Contains(PyStr(row.eom_number), Strip(fl[k]))
    ELSE Contains(PyStr(row.email), Strip(fl[k]))

\* one clause of the filter code: filtered_df = filtered_df[mask] under its if
ApplyClause(df, fl, k) ==
    IF Active(fl, k) THEN SelectSeq(df, LAMBDA row : Mask(fl, k, row)) ELSE df

RECURSIVE ApplyEachToSnapshot(_, _, _)
\* the clauses as they would be if each one filtered the snapshot and not the
\* frame left by the clause before it
ApplyEachToSnapshot(df, fl, order) ==
    IF order = <<>> THEN df
    ELSE LET k == order[Len(order)]
         IN IF Active(fl, k) THEN ApplyClause(df, fl, k)
            ELSE ApplyEachToSnapshot(df, fl, SubSeq(order, 1, Len(order) - 1))

RECURSIVE ApplyInOrder(_, _, _)
\* the clauses applied one after the other to the running frame
ApplyInOrder(df, fl, order) ==
    IF order = <<>> THEN df
    ELSE ApplyInOrder(ApplyClause(df, fl, Head(order)), fl, Tail(order))

\* df_all.copy()
Copy(df) == df

\* the filter code of tab6: the two frames it leaves
ApplyFilters(snapshot, fl) ==
    [df_all |-> snapshot, filtered_df |-> ApplyInOrder(Copy(snapshot), fl, ClauseOrder)]

\* the Reset button: a list becomes [], a text "" when its key holds "search"
\* or is student_university, any other text "Ola"
ResetFilters(fl) ==
    [k \in DOMAIN fl |->
        IF k \in Range(MultiCols) THEN {}
        ELSE IF k \in Range(TextCols) THEN <<>>
        ELSE AllChoice]

\* SELECT * FROM people has no ORDER BY: the rows in any order
Snapshots(rows) ==
    {s \in [1..Cardinality(rows) -> rows] : \A i, j \in 1..Cardinality(rows) : s[i] = s[j] => i = j}

-----------------------------------------------------------------------------
(* The state after start-up. *)

\* the filters of a new session; a multi-choice list is kept as the set of its
\* choices, which is all that isin and the test for emptiness read
DefaultFilters ==
    [is_member |-> AllChoice, is_athlete |-> AllChoice, is_student |-> AllChoice,
     is_interested |-> AllChoice,
     member_month |-> {}, member_year |-> {}, subscription_year |-> {},
     athlete_from_year |-> {}, student_period_month |-> {}, student_period_year |-> {},
     student_university |-> {},
     eom_number_search |-> <<>>, name_search |-> <<>>, email_search |-> <<>>]

\* no operator is inside save_member_attribute
NoCalls == [o \in 1..MaxOperators |-> [at |-> "idle"]]

NoImport ==
    [existing |-> {}, key_fields |-> {}, custom_mapping |-> <<>>,
     rows |-> 0, inserted |-> 0, skipped |-> 0, warnings |-> 0]

Init ==
    /\ people = init_db.people
    /\ custom_fields = init_db.custom_fields
    /\ member_attributes = init_db.member_attributes
    /\ settings = init_db.settings
    /\ seqs = init_db.seqs
    /\ pc = "idle"
    /\ imp = NoImport
    /\ last = [op |-> "init_db"]
    /\ f = DefaultFilters
    /\ df_all = <<>>
    /\ filtered_df = <<>>
    /\ calls = NoCalls

-----------------------------------------------------------------------------
(* The handlers, one operator action at a time. *)

\* save_member_attribute called on its own
SetAttribute(member_id, field_id, field_value) ==
    /\ pc = "idle"
    /\ UNCHANGED calls
    /\ LET res == save_member_attribute(DB, member_id, field_id, field_value)
       IN /\ SetDB(res.db)
          /\ last' = [op |-> "save_member_attribute", member_id |-> member_id,
                      field_id |-> field_id, field_value |-> field_value,
                      done |-> res.done, err |-> res.err]
    /\ UNCHANGED <<pc, imp, filtervars>>

\* add_custom_field called on its own
DefineField(field_name, display_name, applicable_domains) ==
    /\ pc = "idle"
    /\ UNCHANGED calls
    /\ seqs.custom_fields < MaxFields
    /\ LET res == add_custom_field(DB, field_name, display_name, applicable_domains)
       IN /\ SetDB(res.db)
          /\ last' = [op |-> "add_custom_field", field_name |-> field_name,
                      applicable_domains |-> applicable_domains, err |-> res.err]
    /\ UNCHANGED <<pc, imp, filtervars>>

\* tab9's add button: two warnings, else add_custom_field on the stripped name
Tab9AddField(new_field_name, new_applicable_domains) ==
    /\ pc = "idle"
    /\ UNCHANGED calls
    /\ seqs.custom_fields < MaxFields
    /\ IF new_field_name = <<>> \/ new_applicable_domains = <<>>
       THEN /\ UNCHANGED dbvars
            /\ last' = [op |-> "tab9_warning"]
       ELSE LET res == add_custom_field(DB, Strip(new_field_name), Strip(new_field_name),
                                        new_applicable_domains)
            IN /\ SetDB(res.db)
               /\ last' = [op |-> "add_custom_field", field_name |-> Strip(new_field_name),
                           applicable_domains |-> new_applicable_domains, err |-> res.err]
    /\ UNCHANGED <<pc, imp, filtervars>>

\* tab9's delete button, and delete_custom_field called on its own
DeleteField(field_id) ==
    /\ pc = "idle"
    /\ UNCHANGED calls
    /\ SetDB(delete_custom_field(DB, field_id))
    /\ last' = [op |-> "delete_custom_field", field_id |-> field_id,
                rowcount |-> BagCardinality(BagFilter(member_attributes,
                                                      LAMBDA r : r.field_id = field_id))]
    /\ UNCHANGED <<pc, imp, filtervars>>

\* set_club_name up to its first statement
SetClubNameDelete(name) ==
    /\ pc = "idle"
    /\ UNCHANGED calls
    /\ SetDB(DeleteSettings(DB))
    /\ pc' = "set_club_name"
    /\ last' = [op |-> "set_club_name", name |-> name,
                rowcount |-> BagCardinality(settings)]
    /\ UNCHANGED <<imp, filtervars>>

\* set_club_name's second statement
SetClubNameInsert ==
    /\ pc = "set_club_name"
    /\ UNCHANGED calls
    /\ SetDB(InsertSettings(DB, last.name))
    /\ pc' = "idle"
    /\ last' = [op |-> "set_club_name_done", name |-> last.name,
                rowcount |-> last.rowcount]
    /\ UNCHANGED <<imp, filtervars>>

\* tab1's save button
Tab1Save(last_name, first_name, inputs) ==
    /\ pc = "idle"
    /\ UNCHANGED calls
    /\ \E res \in tab1_save(DB, last_name, first_name, inputs) :
          /\ SetDB(res.db)
          /\ last' = [op |-> "tab1_save", last_name |-> last_name,
                      first_name |-> first_name, inputs |-> inputs, err |-> res.err]
    /\ UNCHANGED <<pc, imp, filtervars>>

\* the edit form's save button
UpdatePerson(rid, form) ==
    /\ pc = "idle"
    /\ UNCHANGED calls
    /\ SetDB(update_person(DB, rid, form))
    /\ last' = [op |-> "update_person", id |-> rid]
    /\ UNCHANGED <<pc, imp, filtervars>>

\* the edit form's delete button
DeletePerson(rid) ==
    /\ pc = "idle"
    /\ UNCHANGED calls
    /\ SetDB(delete_person(DB, rid))
    /\ last' = [op |-> "delete_person", id |-> rid,
                cascaded |-> BagCardinality(BagFilter(member_attributes,
                                                      LAMBDA r : r.member_id = rid))]
    /\ UNCHANGED <<pc, imp, filtervars>>

\* tab8's import button, up to the loop: the snapshot of the people's keys
ImportStart(key_fields, mapped) ==
    /\ pc = "idle"
    /\ UNCHANGED calls
    /\ pc' = "import"
    /\ imp' = [existing |-> ExistingKeys(DB), key_fields |-> key_fields,
               custom_mapping |-> Ascending(mapped),
               rows |-> 0, inserted |-> 0, skipped |-> 0, warnings |-> 0]
    /\ last' = [op |-> "import_start"]
    /\ UNCHANGED <<dbvars, filtervars>>

\* one pass of the import loop, for the next row of the sheet
ImportRow(sheet_row, cells, failing, cap) ==
    /\ pc = "import"
    /\ UNCHANGED calls
    /\ imp.rows < MaxImportRows
    /\ LET data == [k \in imp.key_fields |-> sheet_row[k]]
       IN IF IsDuplicate(imp.existing, data)
          THEN /\ imp' = [imp EXCEPT !.rows = @ + 1, !.skipped = @ + 1]
               /\ last' = [op |-> "import_row", data |-> data, outcome |-> "skipped",
                           member_id |-> 0]
               /\ UNCHANGED dbvars
          ELSE /\ seqs.people < cap
               /\ LET d1 == InsertImported(DB, data)
                      found == IdsByIdentity(d1, DataGet(data, "email"),
                                             DataGet(data, "first_name"),
                                             DataGet(data, "last_name"))
                  IN IF found = {}
                     THEN /\ SetDB(d1)
                          /\ imp' = [imp EXCEPT !.rows = @ + 1]
                          /\ last' = [op |-> "import_row", data |-> data,
                                      outcome |-> "inserted, id not found", member_id |-> 0]
                     ELSE \E member_id \in found :
                            LET res == ImportCustomFields(d1, member_id, imp.custom_mapping,
                                                          cells, failing, 1)
                            IN /\ SetDB(res.db)
                               /\ imp' = [imp EXCEPT !.rows = @ + 1, !.inserted = @ + 1,
                                                     !.warnings = @ + res.warnings]
                               /\ last' = [op |-> "import_row", data |-> data,
                                           outcome |-> "inserted", member_id |-> member_id,
                                           cells |-> cells, failing |-> failing]
    /\ UNCHANGED <<pc, filtervars>>

\* the end of the import loop: the two counts are reported
ImportFinish ==
    /\ pc = "import"
    /\ UNCHANGED calls
    /\ pc' = "idle"
    /\ last' = [op |-> "import_done", inserted |-> imp.inserted, skipped |-> imp.skipped,
                warnings |-> imp.warnings]
    /\ imp' = NoImport
    /\ UNCHANGED <<dbvars, filtervars>>
\* a change of one widget of tab6 and the script run it causes: the snapshot is
\* read, the filters are applied to a copy of it
Tab6Run(fl) ==
    /\ pc = "idle"
    /\ UNCHANGED calls
    /\ Cardinality({k \in DOMAIN fl : fl[k] # DefaultFilters[k]}) <= MaxActive
    /\ f' = fl
    /\ \E snapshot \in Snapshots(people) :
          /\ df_all' = ApplyFilters(snapshot, fl).df_all
          /\ filtered_df' = ApplyFilters(snapshot, fl).filtered_df
          /\ last' = [op |-> "tab6", snapshot |-> snapshot]
    /\ UNCHANGED <<dbvars, pc, imp>>

\* a selectbox of tab6 is given another choice
Tab6Select(col, choice) ==
    /\ f[col] # choice
    /\ Tab6Run([f EXCEPT ![col] = choice])

\* a multiselect of tab6 is given another list
Tab6Multi(key, choices) ==
    /\ f[key] # choices
    /\ Tab6Run([f EXCEPT ![key] = choices])

\* a text input of tab6 is given another text
Tab6Text(key, text) ==
    /\ f[key] # text
    /\ Tab6Run([f EXCEPT ![key] = text])

\* the Reset Filters button
Tab6Reset == Tab6Run(ResetFilters(f))

-----------------------------------------------------------------------------
(* The inputs the operator gives, and the specification of the handlers    *)
(* that write people, custom_fields and member_attributes.                 *)

FieldNames == {<<"A", "M", "K", "A">>, <<"T">>}

\* what tab9's name input can hold
Tab9Names == {<<>>, <<"T", " ">>}

AttributeValues == {<<"1">>, <<"2">>}

\* the cells of one sheet row under the columns the base fields can be mapped to
SheetRow ==
    [first_name |-> <<"N", "i">>, last_name |-> <<"P", "a">>, phone |-> <<"6", "9">>,
     email |-> <<"n", "@", "x">>, is_member |-> NAI, is_athlete |-> OXI,
     eom_number |-> <<"A", "1">>]

\* the cells under a column mapped to a custom field
CustomCells == {<<"5">>, <<"n", "a", "n">>}

\* what tab1's two required text inputs can hold
Tab1Names == {<<>>, <<"N", "i">>}

Next ==
    \/ \E m \in 1..MaxPeople, fid \in 1..MaxFields, v \in AttributeValues :
          SetAttribute(m, fid, v)
    \/ \E n \in FieldNames : DefineField(n, n, <<>>)
    \/ \E n \in Tab9Names : Tab9AddField(n, <<MELOS>>)
    \/ \E fid \in 1..MaxFields : DeleteField(fid)
    \/ \E ln \in Tab1Names, fn \in Tab1Names :
          Tab1Save(ln, fn, [w \in Tab1Widgets(DB) |-> <<>>])
    \/ \E p \in people : UpdatePerson(p.id, EditDefaults(p))
    \/ \E p \in people : DeletePerson(p.id)
    \/ \E mapped \in SUBSET Ids(custom_fields) : ImportStart(ImportFields, mapped)
    \/ \E cells \in [Range(imp.custom_mapping) -> CustomCells],
          failing \in SUBSET Range(imp.custom_mapping) : ImportRow(SheetRow, cells, failing, MaxPeople)
    \/ ImportFinish

Spec == Init /\ [][Next]_vars

-----------------------------------------------------------------------------
(* The specification of the club name and of the custom field definitions, *)
(* with every way of choosing a field's categories.                        *)

ClubNames == {<<"O", "M", "H">>, <<"A">>}

\* the categories picked in tab9's multiselect, in the order picked
DomainLists ==
    {<<>>, <<MELOS>>, <<MATHITIS, ATHLITIS>>, <<GENIKA, ENDIAFEROMENOS>>,
     <<ENDIAFEROMENOS, MELOS, ATHLITIS>>}

NextAdmin ==
    \/ \E n \in ClubNames : SetClubNameDelete(n)
    \/ SetClubNameInsert
    \/ \E n \in FieldNames, l \in DomainLists : DefineField(n, n, l)
    \/ \E n \in Tab9Names, l \in DomainLists : Tab9AddField(n, l)
    \/ \E fid \in 1..MaxFields : DeleteField(fid)

SpecAdmin == Init /\ [][NextAdmin]_vars

-----------------------------------------------------------------------------
(* The specification of the import and of the handlers of the people it    *)
(* creates, with sheets whose rows differ in case and in what is mapped.   *)

\* the rows a sheet can hold
SheetRows ==
    {[SheetRow EXCEPT !.first_name = fn, !.email = e] :
        fn \in {<<"N", "i">>, <<"n", "i">>}, e \in {<<"n", "@", "x">>, <<"n", "o", "n", "e">>}}

\* the column mappings the operator can choose
KeyFieldChoices ==
    {ImportFields, {"first_name", "last_name", "email"}, {"first_name", "last_name"}, {}}

NextImport ==
    \/ \E k \in KeyFieldChoices : ImportStart(k, {})
    \/ \E r \in SheetRows : ImportRow(r, <<>>, {}, MaxImported)
    \/ ImportFinish
    \/ \E p \in people : UpdatePerson(p.id, EditDefaults(p))
    \/ \E p \in people : DeletePerson(p.id)

SpecImport == Init /\ [][NextImport]_vars

-----------------------------------------------------------------------------
(* The specification of tab6 over a table of three people: one imported    *)
(* with every column mapped and then saved from the edit form, one         *)
(* imported with the names unmapped, one imported with every column mapped. *)

\* months[1]
SecondMonth == "Fevrouarios"

\* the cells of a sheet row as the operator maps them: the mapped columns only
Mapped(sheet_row, key_fields) == [k \in key_fields |-> sheet_row[k]]

FullRow == ImportedPerson(1, Mapped(SheetRow, ImportFields))

\* the people of the table
SamplePeople ==
    {UpdatedPerson(FullRow, EditDefaults(FullRow)),
     ImportedPerson(2, Mapped([SheetRow EXCEPT !.email = <<"N", "@", "x">>,
                                               !.eom_number = <<"a", "1">>,
                                               !.is_member = OXI],
                              {"email", "eom_number", "is_member"})),
     ImportedPerson(3, Mapped([SheetRow EXCEPT !.first_name = <<"n", "i">>,
                                               !.email = <<"N", "@">>,
                                               !.is_athlete = NAI,
                                               !.eom_number = <<"a", "1">>],
                              ImportFields))}

InitFilter ==
    /\ people = SamplePeople
    /\ custom_fields = init_db.custom_fields
    /\ member_attributes = init_db.member_attributes
    /\ settings = init_db.settings
    /\ seqs = [init_db.seqs EXCEPT !.people = Cardinality(SamplePeople)]
    /\ pc = "idle"
    /\ imp = NoImport
    /\ last = [op |-> "init_db"]
    /\ f = DefaultFilters
    /\ df_all = <<>>
    /\ filtered_df = <<>>
    /\ calls = NoCalls

\* the choices of a selectbox
RoleChoices == {AllChoice, NAI, OXI}

\* the lists a multiselect is given
MultiChoices(key) ==
    CASE key \in {"member_month", "student_period_month"} -> {{}, {FirstMonth}, {SecondMonth}}
      [] key = "member_year" -> {{}, {FirstYear2000, FirstYear2000 + 1}}
      [] key \in {"subscription_year", "student_period_year"} -> {{}, {FirstYear2010}}
      [] key = "athlete_from_year" -> {{}, {FirstYear1980 + 1}}
      [] key = "student_university" -> {{}, {OXI, NAI}}

\* the texts a search is given (no character is a regular-expression metacharacter)
SearchTexts(key) ==
    CASE key = "name_search" -> {<<>>, <<" ">>, <<"n", "i">>, <<"P", "A", " ">>}
      [] key = "eom_number_search" -> {<<>>, <<" ">>, <<"A", "1">>, <<"a", "1">>}
      [] key = "email_search" -> {<<>>, <<" ">>, <<"N", "@">>, <<"o", "n">>}

NextFilter ==
    \/ \E col \in Range(RoleCols), choice \in RoleChoices : Tab6Select(col, choice)
    \/ \E key \in Range(MultiCols) : \E choices \in MultiChoices(key) : Tab6Multi(key, choices)
    \/ \E key \in Range(TextCols) : \E text \in SearchTexts(key) : Tab6Text(key, text)
    \/ Tab6Reset

SpecFilter == InitFilter /\ [][NextFilter]_vars

-----------------------------------------------------------------------------
(* The specification of the import with custom fields mapped, over a       *)
(* database in which two custom fields are defined: sheets of several rows, *)
(* with rows of the same key, empty cells and writes that raise.            *)

\* the database after two add_custom_field calls
TwoFields ==
    add_custom_field(add_custom_field(init_db, <<"A", "M", "K", "A">>, <<"A", "M", "K", "A">>,
                                      <<MELOS>>).db,
                     <<"T">>, <<"T">>, <<>>).db

InitCells ==
    /\ people = TwoFields.people
    /\ custom_fields = TwoFields.custom_fields
    /\ member_attributes = TwoFields.member_attributes
    /\ settings = TwoFields.settings
    /\ seqs = TwoFields.seqs
    /\ pc = "idle"
    /\ imp = NoImport
    /\ last = [op |-> "init_db"]
    /\ f = DefaultFilters
    /\ df_all = <<>>
    /\ filtered_df = <<>>
    /\ calls = NoCalls

\* the rows of the sheet: the same key in two letter cases
CellRows == {SheetRow, [SheetRow EXCEPT !.first_name = <<"n", "i">>]}

\* the base-field mappings: with and without the email column
CellKeyFields == {ImportFields, {"first_name", "last_name"}}

\* the cells under the columns mapped to custom fields
CellValues == {<<"5">>, <<"7">>, <<"n", "a", "n">>}

NextCells ==
    \/ \E k \in CellKeyFields, mapped \in SUBSET Ids(custom_fields) : ImportStart(k, mapped)
    \/ \E r \in CellRows, cells \in [Range(imp.custom_mapping) -> CellValues],
          failing \in SUBSET Range(imp.custom_mapping) :
          ImportRow(r, cells, failing, MaxImported)
    \/ ImportFinish

SpecCells == InitCells /\ [][NextCells]_vars

-----------------------------------------------------------------------------
(* The specification of tab1 with texts typed into its custom-field inputs, *)
(* over a database with one person, two custom fields and one stored value. *)

OnePerson ==
    save_member_attribute(
        [TwoFields EXCEPT !.people = {FullRow}, !.seqs.people = 1],
        1, 1, <<"5">>).db

InitCreate ==
    /\ people = OnePerson.people
    /\ custom_fields = OnePerson.custom_fields
    /\ member_attributes = OnePerson.member_attributes
    /\ settings = OnePerson.settings
    /\ seqs = OnePerson.seqs
    /\ pc = "idle"
    /\ imp = NoImport
    /\ last = [op |-> "init_db"]
    /\ f = DefaultFilters
    /\ df_all = <<>>
    /\ filtered_df = <<>>
    /\ calls = NoCalls

\* what a custom-field input of tab1 can hold
Tab1Texts == {<<>>, <<"5">>}

NextCreate ==
    \/ \E ln \in Tab1Names, fn \in Tab1Names, inputs \in [Tab1Widgets(DB) -> Tab1Texts] :
          Tab1Save(ln, fn, inputs)
    \/ \E fid \in 1..MaxFields : DeleteField(fid)

SpecCreate == InitCreate /\ [][NextCreate]_vars

-----------------------------------------------------------------------------
(* The specification of save_member_attribute called by several operators  *)
(* at once: each statement of a call commits on its own connection, and    *)
(* the statements of different calls interleave.                           *)

\* the SELECT of save_member_attribute, by operator o
SaveSelect(o, member_id, field_id, field_value) ==
    /\ pc = "idle"
    /\ calls[o].at = "idle"
    /\ calls' = [calls EXCEPT ![o] =
                    [at |-> "selected", member_id |-> member_id, field_id |-> field_id,
                     field_value |-> field_value,
                     empty |-> RowsOf(member_attributes, member_id, field_id) = EmptyBag]]
    /\ UNCHANGED <<dbvars, pc, imp, last, filtervars>>

\* the INSERT or the UPDATE of save_member_attribute, by operator o, as its
\* SELECT decided
SaveWrite(o) ==
    /\ calls[o].at = "selected"
    /\ LET c == calls[o]
           ok == ~c.empty \/ ForeignKeysHold(DB, c.member_id, c.field_id)
       IN /\ SetDB(IF ~c.empty
                   THEN UpdateAttribute(DB, c.member_id, c.field_id, c.field_value)
                   ELSE IF ok
                   THEN InsertAttribute(DB, c.member_id, c.field_id, c.field_value)
                   ELSE DB)
          /\ last' = [op |-> "save_member_attribute", member_id |-> c.member_id,
                      field_id |-> c.field_id, field_value |-> c.field_value,
                      done |-> IF c.empty THEN "INSERT" ELSE "UPDATE",
                      err |-> IF ok THEN "" ELSE "ForeignKeyViolation"]
    /\ calls' = [calls EXCEPT ![o] = [at |-> "idle"]]
    /\ UNCHANGED <<pc, imp, filtervars>>

NextRace ==
    \/ \E o \in 1..MaxOperators, p \in people, cf \in custom_fields, v \in AttributeValues :
          SaveSelect(o, p.id, cf.id, v)
    \/ \E o \in 1..MaxOperators : SaveWrite(o)
    \/ \E p \in people : DeletePerson(p.id)

SpecRace == InitCreate /\ [][NextRace]_vars

-----------------------------------------------------------------------------
(* The claims about the attribute engine and the club name.                *)

AllPairs == (1..seqs.people) \X (1..seqs.custom_fields)

\* C1: calls of setAttribute issued one at a time never leave two rows for one
\* (personId, fieldId), and right after a call that wrote, the pair has exactly
\* one row, holding the value of that call.
C1_OneRowLatestValue ==
    /\ \A pair \in AllPairs :
          BagCardinality(RowsOf(member_attributes, pair[1], pair[2])) <= 1
    /\ (last.op = "save_member_attribute" /\ last.err = "")
          => RowsOf(member_attributes, last.member_id, last.field_id)
                = SetToBag({[member_id |-> last.member_id, field_id |-> last.field_id,
                             field_value |-> last.field_value]})

\* a call that found a row of the pair and overwrote its value with another
C1_Witness ==
    /\ last.op = "save_member_attribute"
    /\ last.done = "UPDATE"
    /\ last.field_value = <<"2">>
    /\ BagCardinality(member_attributes) = 2

\* C2, as a state: after deleteField(fieldId) the definition is gone, no row of
\* member_attributes has that field_id, and attributesFor of no person shows it.
C2_FieldGone ==
    last.op = "delete_custom_field"
        => /\ last.field_id \notin Ids(custom_fields)
           /\ \A r \in BagToSet(member_attributes) : r.field_id # last.field_id
           /\ \A p \in people :
                 \A a \in BagToSet(get_member_attributes(DB, p.id)) : a.id # last.field_id

\* C2, as a step: deleteField(fieldId) leaves the rows of the other fields as they were.
C2_OthersKept ==
    last'.op = "delete_custom_field"
        => BagFilter(member_attributes', LAMBDA r : r.field_id # last'.field_id)
              = BagFilter(member_attributes, LAMBDA r : r.field_id # last'.field_id)

\* C2: deleteField(fieldId) removes the field's definition and all its values, so
\* that attributesFor never shows the field again, and changes no other field's values.
C2_DeleteFieldCascades == [](C2_FieldGone) /\ [][C2_OthersKept]_vars

\* a field with a stored value was deleted while another field's value stayed
C2_Witness ==
    /\ last.op = "delete_custom_field"
    /\ last.rowcount = 1
    /\ member_attributes # EmptyBag

\* the custom field the latest add_custom_field created
NewField == CHOOSE cf \in custom_fields : cf.field_name = last.field_name

\* C3: a field created by defineField(name, displayName, domains) is returned by
\* fieldsForDomain(d) exactly for the tags d of its domain list, and for every tag
\* when the stored domains is the sentinel of the empty list.
C3_FieldsForDomain ==
    (last.op = "add_custom_field" /\ last.err = "")
        => \A d \in DomainTags :
              (NewField \in get_custom_fields_by_domain(DB, d))
                  <=> (d \in Range(last.applicable_domains)
                          \/ NewField.applicable_domains = Ola)

\* a field of two categories, the second of which is found inside the stored text
C3_Witness ==
    /\ last.op = "add_custom_field"
    /\ last.err = ""
    /\ last.applicable_domains = <<MATHITIS, ATHLITIS>>
    /\ NewField \in get_custom_fields_by_domain(DB, ATHLITIS)
    /\ Cardinality(custom_fields) = 2

\* C4, as a state: field_name is unique across custom_fields.
C4_NamesUnique ==
    \A c1, c2 \in custom_fields : c1.field_name = c2.field_name => c1 = c2

\* C4, as a step: defineField with a name that exists raises and writes nothing.
C4_RefusedWritesNothing ==
    (/\ last'.op = "add_custom_field"
     /\ \E cf \in custom_fields : cf.field_name = last'.field_name)
        => /\ last'.err # ""
           /\ custom_fields' = custom_fields
           /\ member_attributes' = member_attributes

\* C4: defineField with an existing name fails and writes nothing, and field_name
\* stays unique in every reachable state.
C4_DuplicateFieldRefused == [](C4_NamesUnique) /\ [][C4_RefusedWritesNothing]_vars

\* a refused definition, with attribute values stored
C4_Witness ==
    /\ last.op = "add_custom_field"
    /\ last.err = "UniqueViolation"
    /\ custom_fields # {}
    /\ member_attributes # EmptyBag

\* C5: settings never holds more than one row, between the DELETE and the INSERT
\* of setClubName included; after setClubName(n) the row holds n and getClubName
\* returns n.
C5_SettingsSingleton ==
    /\ BagCardinality(settings) <= 1
    /\ pc = "set_club_name" => BagCardinality(settings) = 0
    /\ last.op = "set_club_name_done"
          => /\ settings = SetToBag({[club_name |-> last.name]})
             /\ get_club_name(DB) = {last.name}

\* a completed setClubName that replaced the row of an earlier one
C5_Witness ==
    /\ last.op = "set_club_name_done"
    /\ last.rowcount = 1
    /\ last.name = <<"A">>
    /\ get_club_name(DB) = {<<"A">>}

-----------------------------------------------------------------------------
(* The claims about the filters of tab6.                                   *)

\* the clauses the code applies under a filter state
ActiveClauses(fl) == {k \in Range(ClauseOrder) : Active(fl, k)}

\* ClauseOrder without the clauses of a set
Without(omitted) == SelectSeq(ClauseOrder, LAMBDA k : k \notin omitted)

\* C6: after a run of tab6 the filtered frame holds exactly the rows of the
\* snapshot whose mask is true under every active clause, in the snapshot's
\* order; applying the active clauses in any order, or all the clauses in the
\* reverse order, gives the same frame; the snapshot is the one that was read.
C6_ConjunctionInSnapshotOrder ==
    last.op = "tab6" =>
        /\ filtered_df =
              SelectSeq(df_all, LAMBDA row : \A k \in ActiveClauses(f) : Mask(f, k, row))
        /\ \A order \in Snapshots(ActiveClauses(f)) :
              ApplyInOrder(df_all, f, order) = filtered_df
        /\ ApplyInOrder(df_all, f, [i \in 1..Len(ClauseOrder) |->
                                       ClauseOrder[Len(ClauseOrder) + 1 - i]]) = filtered_df
        /\ df_all = last.snapshot

\* two clauses are active, each keeps a row the other removes, a row passes
\* both, and the snapshot was not read in id order
C6_Witness ==
    /\ last.op = "tab6"
    /\ Cardinality(ActiveClauses(f)) = 2
    /\ filtered_df # <<>>
    /\ \A k \in ActiveClauses(f) : Len(ApplyClause(df_all, f, k)) > Len(filtered_df)
    /\ df_all[1].id > df_all[2].id

\* the multi-choice clauses whose list is empty and the text clauses whose text
\* is empty
EmptyClauses(fl) ==
    {k \in Range(MultiCols) : fl[k] = {}} \cup {k \in Range(TextCols) : fl[k] = <<>>}

\* C7: after a run of tab6 the filtered frame is the one obtained with every
\* empty multi-choice clause and every empty text clause left out, and no such
\* clause removes a row of the snapshot.
C7_EmptyClauseIsOmitted ==
    last.op = "tab6" =>
        /\ filtered_df = ApplyInOrder(df_all, f, Without(EmptyClauses(f)))
        /\ \A k \in EmptyClauses(f) : ApplyClause(df_all, f, k) = df_all

\* a run with one multi-choice list chosen, the other lists and the three texts
\* empty, and rows left
C7_Witness ==
    /\ last.op = "tab6"
    /\ f.member_year # {}
    /\ Cardinality(EmptyClauses(f)) = Len(MultiCols) + Len(TextCols) - 1
    /\ filtered_df # <<>>
    /\ Len(filtered_df) < Len(df_all)

\* the text clauses whose text holds nothing but blanks
BlankClauses(fl) == {k \in Range(TextCols) : Strip(fl[k]) = <<>>}

\* C8: after a run of tab6 the filtered frame is the one obtained with every
\* text clause of blanks left out, whatever columns of the people are NULL.
C8_BlankTextIsOmitted ==
    last.op = "tab6" => filtered_df = ApplyInOrder(df_all, f, Without(BlankClauses(f)))

\* a run with a name search of one blank and nothing else chosen, which shows
\* fewer rows than the run without the name search would
C8_Witness ==
    /\ last.op = "tab6"
    /\ f = [DefaultFilters EXCEPT !.name_search = <<" ">>]
    /\ Len(filtered_df) < Len(ApplyInOrder(df_all, f, Without({"name_search"})))

\* the column a text clause searches is not NULL and holds the text, letter
\* case ignored; the name clause searches the two names
MatchesIgnoringCase(k, row, text) ==
    LET Holds(col) == col # None /\ Contains(Lower(col), Lower(text))
    IN CASE k = "name_search" -> Holds(row.first_name) \/ Holds(row.last_name)
         [] k = "eom_number_search" -> Holds(row.eom_number)
         [] k = "email_search" -> Holds(row.email)

\* C9: a text clause whose text is not blank keeps exactly the rows of the
\* snapshot whose column holds the text, letter case ignored, and no row whose
\* column is NULL.
C9_TextClauseIgnoresCase ==
    last.op = "tab6" =>
        \A k \in Range(TextCols) :
            Strip(f[k]) # <<>> =>
                ApplyClause(df_all, f, k) =
                    SelectSeq(df_all, LAMBDA row : MatchesIgnoringCase(k, row, Strip(f[k])))

\* a run with the federation-id search a1 and nothing else chosen, which does
\* not show the person whose eom_number is A1
C9_Witness ==
    /\ last.op = "tab6"
    /\ f = [DefaultFilters EXCEPT !.eom_number_search = <<"a", "1">>]
    /\ \E i \in 1..Len(df_all) :
          /\ df_all[i].eom_number = <<"A", "1">>
          /\ df_all[i] \notin Range(filtered_df)

-----------------------------------------------------------------------------
(* The claim about the import's duplicate test.                            *)

\* two texts are equal, letter case ignored; a NULL equals a NULL only
SameIgnoringCase(a, b) == IF a = None \/ b = None THEN a = b ELSE Lower(a) = Lower(b)

\* the (first name, last name, email) of a person of the snapshot and of a
\* sheet row are equal, letter case ignored
SameKey(e, data) ==
    /\ SameIgnoringCase(e.first_name, DataGet(data, "first_name"))
    /\ SameIgnoringCase(e.last_name, DataGet(data, "last_name"))
    /\ SameIgnoringCase(e.email, DataGet(data, "email"))

\* C10: a row of the sheet is skipped if and only if its key equals, letter
\* case ignored, the key of a person of the snapshot taken when the import
\* started.
C10_SkippedIffKeyInSnapshot ==
    last.op = "import_row" =>
        ((last.outcome = "skipped") <=> \E e \in imp.existing : SameKey(e, last.data))

\* a row whose email cell is the text none is skipped although every person of
\* the snapshot has a NULL email
C10_Witness ==
    /\ last.op = "import_row"
    /\ last.outcome = "skipped"
    /\ DataGet(last.data, "email") = <<"n", "o", "n", "e">>
    /\ \A e \in imp.existing : e.email = None

-----------------------------------------------------------------------------
(* The claims about the import's custom fields and counts.                 *)

\* the mapped cells of the latest row whose write raised
FailedCells(l) == {fid \in l.failing : CellIsWritten(l.cells[fid])}

\* the one row of a pair holding a value
OneRow(member_id, field_id, field_value) ==
    SetToBag({[member_id |-> member_id, field_id |-> field_id, field_value |-> field_value]})

\* C11, as a step: a row whose person was inserted and found stays inserted and
\* is counted, whatever cells of it failed; each failed cell leaves one warning;
\* every other written cell of the row is stored; the loop goes on to the next row.
C11_RowStep ==
    (last'.op = "import_row" /\ last'.outcome = "inserted")
        => /\ Cardinality(people') = Cardinality(people) + 1
           /\ imp'.inserted = imp.inserted + 1
           /\ imp'.warnings = imp.warnings + Cardinality(FailedCells(last'))
           /\ \A fid \in DOMAIN last'.cells :
                 (CellIsWritten(last'.cells[fid]) /\ fid \notin last'.failing)
                    => RowsOf(member_attributes', last'.member_id, fid)
                          = OneRow(last'.member_id, fid, PyStr(last'.cells[fid]))
           /\ pc' = "import"

\* C11: a custom-field write that fails during the import is isolated to its
\* cell: the person stays inserted and counted, the other cells of the row and
\* the later rows are processed, and there is one warning per failed cell.
C11_CellFailureIsolated == [][C11_RowStep]_vars

\* two rows were inserted, one cell of the first failed, and the other cells of
\* both rows are stored
C11_Witness ==
    /\ last.op = "import_row"
    /\ last.outcome = "inserted"
    /\ Cardinality(DOMAIN last.cells) = 2
    /\ imp.inserted = 2
    /\ imp.warnings = 1
    /\ FailedCells(last) = {}
    /\ BagCardinality(member_attributes) = 3

\* C12, as a step: each row adds to the inserted count what it adds to people,
\* every row is counted as inserted or as skipped, and the counts reported at
\* the end are these counts.
C12_CountStep ==
    /\ last'.op = "import_row"
          => /\ imp'.inserted - imp.inserted = Cardinality(people') - Cardinality(people)
             /\ imp'.inserted + imp'.skipped = imp'.rows
    /\ last'.op = "import_done"
          => /\ last'.inserted = imp.inserted
             /\ last'.skipped = imp.skipped

\* C12: the inserted count reported by the import is the number of people it
\* added, and inserted + skipped is the number of rows of the sheet, also for
\* rows whose re-query after the INSERT finds no row.
C12_InsertedCountsPeople == [][C12_CountStep]_vars

\* an import of two rows with the email unmapped has ended: two people were
\* added, and the report says none inserted and none skipped
C12_Witness ==
    /\ last.op = "import_done"
    /\ last.inserted = 0
    /\ last.skipped = 0
    /\ Cardinality(people) = 2

-----------------------------------------------------------------------------
(* The claims about the creation of a person in tab1.                      *)

\* the two names tab1's save was given are both present
NamesGiven(l) == l.last_name # <<>> /\ l.first_name # <<>>

\* C13: a save of tab1 in which the last name or the first name is missing
\* writes nothing to any table, and its only outcome is the warning
C13_MissingNameStep ==
    (last'.op = "tab1_save" /\ ~NamesGiven(last'))
        => /\ UNCHANGED dbvars
           /\ last'.err = "warning"

C13_MissingNameWritesNothing == [][C13_MissingNameStep]_vars

\* a save with the first name missing and a text typed for a custom field, over
\* a database that holds a person and a stored value, has ended
C13_Witness ==
    /\ last.op = "tab1_save"
    /\ last.first_name = <<>>
    /\ last.last_name # <<>>
    /\ \E w \in DOMAIN last.inputs : last.inputs[w] # <<>>
    /\ last.err = "warning"
    /\ people # {}
    /\ member_attributes # EmptyBag

\* the (field name, text) pairs typed into tab1's custom-field inputs
Entered(inputs) == {<<w[2], inputs[w]>> : w \in {x \in DOMAIN inputs : inputs[x] # <<>>}}

\* C14: a save of tab1 with both names present adds exactly one person, and the
\* stored attributes of that person are exactly the (field, text) pairs typed,
\* one row each
C14_CreateStep ==
    (last'.op = "tab1_save" /\ NamesGiven(last'))
        => /\ Cardinality(people' \ people) = 1
           /\ people \subseteq people'
           /\ \A p \in people' \ people :
                LET rows == get_member_attributes([DB EXCEPT !.custom_fields = custom_fields',
                                                             !.member_attributes = member_attributes'],
                                                  p.id)
                IN /\ \A r \in BagToSet(rows) : CopiesIn(r, rows) = 1
                   /\ {<<r.field_name, r.field_value>> : r \in BagToSet(rows)}
                        = Entered(last'.inputs)

C14_CreateAddsPersonAndValues == [][C14_CreateStep]_vars

\* a save with both names present and a text typed for a custom field has ended
C14_Witness ==
    /\ last.op = "tab1_save"
    /\ NamesGiven(last)
    /\ \E w \in DOMAIN last.inputs : last.inputs[w] # <<>>
    /\ last.err = "IndexError"

-----------------------------------------------------------------------------
(* The claims about the edit form and the integrity of the stored values.  *)

\* the database of the next state
DBNext ==
    [people |-> people', custom_fields |-> custom_fields',
     member_attributes |-> member_attributes', settings |-> settings', seqs |-> seqs']

\* C15: the edit form's save, for which the operator supplied no value of any
\* custom field, leaves the stored attributes of the person as they were
C15_UpdateStep ==
    last'.op = "update_person"
        => get_member_attributes(DBNext, last'.id) = get_member_attributes(DB, last'.id)

C15_UpdateKeepsAttributes == [][C15_UpdateStep]_vars

\* the edit form's save has ended for a person who has a stored attribute
C15_Witness ==
    /\ last.op = "update_person"
    /\ get_member_attributes(DB, last.id) # EmptyBag

\* C16: a pass of the import loop that inserts a person changes the stored
\* attributes of no person but the one it inserted, also when the key of the
\* row is the key of other people
C16_OwnRowStep ==
    (last'.op = "import_row" /\ last'.outcome = "inserted")
        => \A p \in people :
             get_member_attributes(DBNext, p.id) = get_member_attributes(DB, p.id)

C16_ValuesGoToInsertedPerson == [][C16_OwnRowStep]_vars

\* a pass has inserted a second person of the same key, and the id its re-query
\* gave is the id of the first, who holds a value
C16_Witness ==
    /\ last.op = "import_row"
    /\ last.outcome = "inserted"
    /\ last.member_id # seqs.people
    /\ last.member_id \in Ids(people)
    /\ get_member_attributes(DB, last.member_id) # EmptyBag

\* C17: between handlers, every row of member_attributes names a person of
\* people and a field of custom_fields, and once a person has been deleted no
\* row names that person
C17_ReferentialIntegrity ==
    /\ \A r \in BagToSet(member_attributes) :
          r.member_id \in Ids(people) /\ r.field_id \in Ids(custom_fields)
    /\ last.op = "delete_person"
          => /\ last.id \notin Ids(people)
             /\ \A r \in BagToSet(member_attributes) : r.member_id # last.id

\* a person who had a stored value has been deleted, while a custom field is
\* still defined
C17_Witness ==
    /\ last.op = "delete_person"
    /\ last.cascaded > 0
    /\ custom_fields # {}

\* C18: when the calls of save_member_attribute that several operators made at
\* the same time have all ended, the pair last written has exactly one row
C18_OneRowAfterRace ==
    (calls = NoCalls /\ last.op = "save_member_attribute" /\ last.err = "")
        => BagCardinality(RowsOf(member_attributes, last.member_id, last.field_id)) = 1

\* two calls for a pair that had no row have both ended with an INSERT
C18_Witness ==
    /\ calls = NoCalls
    /\ last.op = "save_member_attribute"
    /\ last.done = "INSERT"
    /\ BagCardinality(RowsOf(member_attributes, last.member_id, last.field_id)) = 2

====
